---- MODULE Spec2Model ----
(***************************************************************************)
(* Model of bimmer_connected/api/client.py: MyBMWClient, an httpx          *)
(* AsyncClient whose constructor resolves base URL and headers, registers  *)
(* the response hooks (optional response logging, raise_for_status), and   *)
(* whose requests run those hooks on every response.                       *)
(*                                                                         *)
(* Text is modelled as a sequence of one-character strings, so that        *)
(* split, join, substring search and digit substitution are computed.      *)
(***************************************************************************)
EXTENDS Naturals, Sequences, FiniteSets

VARIABLES
    event_hooks,  \* the "response" list of the event_hooks mapping the caller keeps and passes in
    clients,      \* the constructed MyBMWClient objects, in construction order
    requests,     \* per request slot: the request/response travelling through the hooks
    files,        \* the file system under the log directories: {[dir, name, body]}
    lastLogged,   \* history: per (dir, expected name), the body of the latest logged response
    loggedRaw,    \* history: the (dir, url path, x-user-agent) of every logged response
    generated,    \* the latest result of a direct generate_default_header() call
    named         \* the latest file name computed by log_response, with its inputs

vars == <<event_hooks, clients, requests, files, lastLogged, loggedRaw, generated, named>>

(***************************************************************************)
(* Bounds.                                                                 *)
(***************************************************************************)
MaxClients == 2
MaxInFlight == 2
MaxPathLen == 3

Slots == 1..MaxInFlight

(***************************************************************************)
(* Text helpers.                                                           *)
(***************************************************************************)
Digits == {"0", "1", "2", "3", "4", "5", "6", "7", "8", "9"}

None == "None"

Max(S) == CHOOSE x \in S : \A y \in S : y <= x

\* Python's  needle in haystack  for str.
IsSubstring(needle, haystack) ==
    \E i \in 0..Len(haystack) :
        /\ i + Len(needle) <= Len(haystack)
        /\ SubSeq(haystack, i + 1, i + Len(needle)) = needle

\* Python's  s.split(sep)  for a one-character separator: the list of segments.
RECURSIVE Split(_, _)
Split(s, sep) ==
    IF \A i \in 1..Len(s) : s[i] # sep
    THEN <<s>>
    ELSE LET i == CHOOSE k \in 1..Len(s) :
                      s[k] = sep /\ \A j \in 1..(k - 1) : s[j] # sep
         IN  <<SubSeq(s, 1, i - 1)>> \o Split(SubSeq(s, i + 1, Len(s)), sep)

\* Python's  sep.join(parts).
RECURSIVE Join(_, _)
Join(parts, sep) ==
    IF Len(parts) = 0 THEN <<>>
    ELSE IF Len(parts) = 1 THEN parts[1]
    ELSE parts[1] \o sep \o Join(Tail(parts), sep)

(***************************************************************************)
(* bimmer_connected.const.CarBrands: the brand identifiers, in             *)
(* declaration order.                                                      *)
(***************************************************************************)
BMW == <<"b", "m", "w">>
MINI == <<"m", "i", "n", "i">>
CarBrands == <<BMW, MINI>>

(***************************************************************************)
(* log_response: the file name.                                            *)
(***************************************************************************)
\* Mutation: the first path segment instead of the last.
FirstSegment(path) == Split(path, "/")[1]

\* response.url.path.split("/")[-1]
LastSegment(path) == LET parts == Split(path, "/") IN parts[Len(parts)]

\* Mutation: stops at the first brand found.
MatchedBrandsFirstOnly(xua) ==
    LET all == SelectSeq(CarBrands, LAMBDA b : IsSubstring(b, xua))
    IN  IF Len(all) = 0 THEN all ELSE <<all[1]>>

\* [x for x in [b.value for b in CarBrands] if x in <x-user-agent>]
MatchedBrands(xua) == SelectSeq(CarBrands, LAMBDA b : IsSubstring(b, xua))

\* Mutation: the substitution is lost.
ZeroDigitsNone(s) == s

\* re.sub(r"\d", "0", s)
ZeroDigits(s) == [i \in 1..Len(s) |-> IF s[i] \in Digits THEN "0" ELSE s[i]]

\* base_file_name as passed to log_to_to_file
FileName(path, xua) ==
    ZeroDigits(Join(<<LastSegment(path)>> \o MatchedBrands(xua), <<"_">>))

(***************************************************************************)
(* Header mappings are functions from header name to value; every value    *)
(* is a sequence of strings (one string for an opaque value, one string    *)
(* per character where the text is inspected).                             *)
(***************************************************************************)
EmptyDict == [k \in {} |-> <<>>]

\* A Python dict display {k1: v1, k2: v2, ...}: a later pair replaces an
\* earlier one with the same key.
DictLiteral(pairs) ==
    [k \in {pairs[i][1] : i \in 1..Len(pairs)} |->
        pairs[Max({i \in 1..Len(pairs) : pairs[i][1] = k})][2]]

\* Mapping.get(key, default)
HeaderGet(headers, key, default) ==
    IF key \in DOMAIN headers THEN headers[key] ELSE default

\* Python truthiness of  kwargs.get("headers")  : None and {} are falsy.
Truthy(optHeaders) == optHeaders.given /\ DOMAIN optHeaders.map # {}

NoHeaders == [given |-> FALSE, map |-> EmptyDict]

(***************************************************************************)
(* Collaborators defined outside client.py (regions, const, utils).        *)
(***************************************************************************)
Regions == {<<"n", "a">>, <<"r", "o", "w">>}

\* regions.get_app_version(region)
get_app_version(region) == IF region = <<"n", "a">> THEN <<"4", ".", "9">> ELSE <<"5", ".", "1">>

\* regions.get_server_url(region)
get_server_url(region) == <<"server">> \o region

\* const.USER_AGENT, const.HTTPX_TIMEOUT
USER_AGENT == <<"USER_AGENT">>
HTTPX_TIMEOUT == "HTTPX_TIMEOUT"

\* const.X_USER_AGENT.format(brand=..., app_version=..., region=...)
X_USER_AGENT(brand, app_version, region) ==
    <<"a", "n", "d", ";">> \o brand \o <<";">> \o app_version \o <<";">> \o region

\* utils.get_correlation_id(): opaque key/value pairs around a fresh id.
get_correlation_id(id) ==
    << <<"x-identity-provider", <<"gcdm">>>>,
       <<"x-correlation-id", <<id>>>>,
       <<"bmw-correlation-id", <<id>>>> >>

(***************************************************************************)
(* MyBMWClient.generate_default_header                                     *)
(***************************************************************************)
\* Mutation: the two unit systems swapped.
UnitsPreferenceSwapped(use_metric_units) ==
    IF use_metric_units = "True" THEN <<"d=MI;v=G">> ELSE <<"d=KM;v=L">>

\* "d=KM;v=L" if self.config.use_metric_units else "d=MI;v=G"
\* (use_metric_units is Optional[bool], here "True", "False" or None: None is falsy)
UnitsPreference(use_metric_units) ==
    IF use_metric_units = "True" THEN <<"d=KM;v=L">> ELSE <<"d=MI;v=G">>

\* brand is <<>> when no brand was passed (brand or CarBrands.BMW)
generate_default_header(config, brand, id) ==
    DictLiteral(
        << <<"accept", <<"application/json">>>>,
           <<"accept-language", <<"en">>>>,
           <<"user-agent", USER_AGENT>>,
           <<"x-user-agent",
             X_USER_AGENT(IF brand = <<>> THEN BMW ELSE brand,
                          get_app_version(config.region), config.region)>> >>
        \o get_correlation_id(id)
        \o << <<"bmw-units-preferences", UnitsPreference(config.use_metric_units)>>,
              <<"24-hour-format", <<"true">>>> >>)

(***************************************************************************)
(* MyBMWClient.__init__                                                    *)
(***************************************************************************)
\* Mutation: the defaults are kept under the caller's headers.
ResolveHeadersMerged(optHeaders, default) ==
    [k \in DOMAIN default \cup DOMAIN optHeaders.map |->
        IF k \in DOMAIN optHeaders.map THEN optHeaders.map[k] ELSE default[k]]

\* kwargs.get("headers") or self.generate_default_header(brand)
ResolveHeaders(optHeaders, default) ==
    IF Truthy(optHeaders) THEN optHeaders.map ELSE default

\* kwargs.get("base_url") or get_server_url(config.authentication.region)
ResolveBaseUrl(kw_base_url, region) ==
    IF kw_base_url \notin {None, ""} THEN <<kw_base_url>> ELSE get_server_url(region)

\* A response hook: who registered it, and what it is.
CallerHook == [kind |-> "caller", owner |-> 0, dir |-> None]
LogHook(owner, dir) == [kind |-> "log", owner |-> owner, dir |-> dir]
RaiseHook(owner) == [kind |-> "raise", owner |-> owner, dir |-> None]

\* defaultdict(list, **kwargs.get("event_hooks", {}))["response"]: the list
\* object of the caller's mapping when it has a "response" key (kw_hooks =
\* "shared"), a fresh empty list otherwise.
SuppliedHooks(kw_hooks) == IF kw_hooks = "shared" THEN event_hooks ELSE <<>>

\* The response list after both appends.
RegisteredHooks(config, kw_hooks, owner) ==
    LET withLog == IF config.log_response_path # None
                   THEN Append(SuppliedHooks(kw_hooks), LogHook(owner, config.log_response_path))
                   ELSE SuppliedHooks(kw_hooks)
    IN  Append(withLog, RaiseHook(owner))

\* MyBMWClient(config, brand=brand, base_url=..., headers=..., event_hooks=...)
\* The appends go to the caller's own list when it was passed in; httpx
\* copies the list into the client.
Construct(config, brand, kw_base_url, kw_headers, kw_hooks, id) ==
    LET owner == Len(clients) + 1
        hooks == RegisteredHooks(config, kw_hooks, owner)
    IN  /\ clients' = Append(clients,
               [config     |-> config,
                auth       |-> "authentication",
                timeout    |-> HTTPX_TIMEOUT,
                base_url   |-> ResolveBaseUrl(kw_base_url, config.region),
                headers    |-> ResolveHeaders(kw_headers,
                                   generate_default_header(config, brand, id)),
                hooks      |-> hooks,
                kw_headers |-> kw_headers,
                kw_hooks   |-> kw_hooks,
                kw_given   |-> SuppliedHooks(kw_hooks),
                brand      |-> brand])
        /\ event_hooks' = IF kw_hooks = "shared" THEN hooks ELSE event_hooks

(***************************************************************************)
(* Requests. A slot holds one request of the caller and its response while *)
(* the response hooks run (httpx: for hook in event_hooks["response"]:     *)
(* await hook(response)), and its outcome afterwards.                      *)
(***************************************************************************)
Idle ==
    [state |-> "idle", client |-> 0, status |-> 0, path |-> <<>>, xua |-> <<>>,
     body |-> <<>>, pc |-> 0, ran |-> <<>>, wrote |-> {}, writes |-> 0,
     logFailed |-> FALSE, code |-> 0]

InFlight(r) == requests[r].state = "inflight"
Finished(r) == requests[r].state \in {"returned", "status_error", "log_error"}

HooksOf(r) == clients[requests[r].client].hooks

\* The hook the response in slot r reaches next.
NextHook(r) == HooksOf(r)[requests[r].pc]

AtHook(r, kind) ==
    /\ InFlight(r)
    /\ requests[r].pc <= Len(HooksOf(r))
    /\ NextHook(r).kind = kind

\* httpx.Response.is_error
is_error(status) == 400 <= status /\ status <= 599

\* A request through client c is sent and its response arrives; the request
\* carries the client's headers.
SendRequest(r, c, status, path, body) ==
    /\ ~InFlight(r)
    /\ c \in 1..Len(clients)
    /\ requests' = [requests EXCEPT ![r] =
           [Idle EXCEPT !.state = "inflight", !.client = c, !.status = status,
                        !.path = path, !.body = body, !.pc = 1,
                        !.xua = HeaderGet(clients[c].headers, "x-user-agent", <<>>)]]
    /\ UNCHANGED <<event_hooks, clients, files, lastLogged, loggedRaw, generated, named>>

\* A hook the caller registered: opaque to this layer, it returns.
RunCallerHook(r) ==
    /\ AtHook(r, "caller")
    /\ requests' = [requests EXCEPT ![r].ran = Append(@, NextHook(r)),
                                    ![r].pc = @ + 1]
    /\ UNCHANGED <<event_hooks, clients, files, lastLogged, loggedRaw, generated, named>>

\* utils.log_to_to_file(content, path, name), when the write succeeds: the
\* file <path>/<name> holds the content (an existing file is replaced).
WriteFile(fs, dir, name, body) ==
    {f \in fs : ~(f.dir = dir /\ f.name = name)}
        \cup {[dir |-> dir, name |-> name, body |-> body]}

\* Vocabulary of the properties, not the code's computation: the file name
\* as the interface states it. The text after the last "/" of the path, then
\* "_" and the brand for each brand found in the x-user-agent header, every
\* decimal digit of the whole replaced by "0". The history variables are
\* kept under this name.
Occurs(b, s) ==
    \E i \in 1..Len(s) :
        /\ i + Len(b) - 1 <= Len(s)
        /\ \A j \in 1..Len(b) : s[i + j - 1] = b[j]

AfterLastSlash(path) ==
    LET slashes == {i \in 1..Len(path) : path[i] = "/"}
        from    == IF slashes = {} THEN 1 ELSE Max(slashes) + 1
    IN  [i \in 1..(Len(path) + 1 - from) |-> path[from + i - 1]]

Composed(path, xua) ==
    AfterLastSlash(path)
        \o (IF Occurs(BMW, xua) THEN <<"_">> \o BMW ELSE <<>>)
        \o (IF Occurs(MINI, xua) THEN <<"_">> \o MINI ELSE <<>>)

ExpectedName(path, xua) ==
    LET whole == Composed(path, xua)
    IN  [i \in 1..Len(whole) |-> IF whole[i] \in Digits THEN "0" ELSE whole[i]]

\* log_response, the write succeeding.
LogResponse(r) ==
    /\ AtHook(r, "log")
    /\ LET q    == requests[r]
           dir  == NextHook(r).dir
           name == FileName(q.path, q.xua)
       IN  /\ files' = WriteFile(files, dir, name, q.body)
           /\ requests' = [requests EXCEPT
                  ![r].ran = Append(@, NextHook(r)),
                  ![r].pc = @ + 1,
                  ![r].writes = @ + 1,
                  ![r].wrote = @ \cup {[dir |-> dir, name |-> name]}]
           /\ lastLogged' = WriteFile(lastLogged, dir, ExpectedName(q.path, q.xua), q.body)
           /\ loggedRaw' = loggedRaw \cup {[dir |-> dir, path |-> q.path, xua |-> q.xua]}
    /\ UNCHANGED <<event_hooks, clients, generated, named>>

\* log_response, the write failing (directory missing, disk full, ...): the
\* exception leaves the hook and ends the request; later hooks do not run.
LogResponseFails(r) ==
    /\ AtHook(r, "log")
    /\ requests' = [requests EXCEPT ![r].state = "log_error",
                                    ![r].logFailed = TRUE]
    /\ UNCHANGED <<event_hooks, clients, files, lastLogged, loggedRaw, generated, named>>

\* response.is_error and response.status_code not in [401, 429]
ShouldRaise(status) == is_error(status) /\ status \notin {401, 429}

\* raise_for_status_event_handler
RaiseForStatus(r) ==
    /\ AtHook(r, "raise")
    /\ requests' = [requests EXCEPT ![r] =
           IF ShouldRaise(@.status)
           THEN [@ EXCEPT !.ran = Append(@, NextHook(r)),
                          !.state = "status_error", !.code = requests[r].status]
           ELSE [@ EXCEPT !.ran = Append(@, NextHook(r)), !.pc = @ + 1]]
    /\ UNCHANGED <<event_hooks, clients, files, lastLogged, loggedRaw, generated, named>>

\* Every hook has returned: the response is handed to the caller.
ReturnResponse(r) ==
    /\ InFlight(r)
    /\ requests[r].pc > Len(HooksOf(r))
    /\ requests' = [requests EXCEPT ![r].state = "returned"]
    /\ UNCHANGED <<event_hooks, clients, files, lastLogged, loggedRaw, generated, named>>

(***************************************************************************)
(* Inputs.                                                                 *)
(***************************************************************************)
Statuses == {200, 302, 401, 403, 429, 500}
Bodies == {<<"body", 1>>, <<"body", 2>>}
LogDir == "logs"

PathVin1 == <<"/", "v", "/", "V", "1">>
PathVin2 == <<"/", "v", "/", "V", "2">>
PathState == <<"/", "v", "/", "s">>

PathChars == {"/", "v", "7"}

\* Every URL path of at most n characters.
RECURSIVE PathsUpTo(_)
PathsUpTo(n) ==
    IF n = 0 THEN {<<>>}
    ELSE PathsUpTo(n - 1)
             \cup {Append(p, c) : p \in {q \in PathsUpTo(n - 1) : Len(q) = n - 1},
                                  c \in PathChars}

\* x-user-agent values: absent, the generated one, a foreign one, both
\* brands, one brand in capitals.
XUserAgents ==
    { <<>>,
      X_USER_AGENT(BMW, <<"4", ".", "9">>, <<"n", "a">>),
      X_USER_AGENT(MINI, <<"5", ".", "1">>, <<"r", "o", "w">>),
      <<"x", "b", "m", "w", "2", "m", "i", "n", "i">>,
      <<"m", "i", "n", "b", "m", "w", "i">>,
      <<"B", "M", "W">> }

CustomHeaders ==
    [given |-> TRUE,
     map |-> DictLiteral(<< <<"x-user-agent", <<"m", "i", "n", "i", ";", "b", "m", "w">>>> >>)]
EmptyHeaders == [given |-> TRUE, map |-> EmptyDict]

Config(log, metric, region) ==
    [log_response_path |-> log, use_metric_units |-> metric, region |-> region]

Init ==
    /\ event_hooks = <<CallerHook>>
    /\ clients = <<>>
    /\ requests = [r \in Slots |-> Idle]
    /\ files = {}
    /\ lastLogged = {}
    /\ loggedRaw = {}
    /\ generated = [called |-> FALSE]
    /\ named = [path |-> <<>>, xua |-> <<>>, name |-> <<>>]

(***************************************************************************)
(* Spec: clients built with and without logging, from no event hooks or    *)
(* from the one event_hooks mapping the caller keeps; the caller awaits    *)
(* each request before it sends the next.                                  *)
(***************************************************************************)
ConstructClient ==
    /\ Len(clients) < MaxClients
    /\ \E log \in {None, LogDir}, kw_hooks \in {"absent", "shared"} :
           Construct(Config(log, "True", <<"n", "a">>), <<>>, None, NoHeaders, kw_hooks, "id1")
    /\ UNCHANGED <<requests, files, lastLogged, loggedRaw, generated, named>>

AwaitRequest ==
    /\ \A r \in Slots : ~InFlight(r)
    /\ \E c \in 1..Len(clients), status \in Statuses,
          path \in {PathVin1, PathState}, body \in Bodies :
           SendRequest(1, c, status, path, body)

CallerHookRuns == \E r \in Slots : RunCallerHook(r)
LogHookRuns == \E r \in Slots : LogResponse(r)
LogHookFails == \E r \in Slots : LogResponseFails(r)
RaiseHookRuns == \E r \in Slots : RaiseForStatus(r)
ResponseReturned == \E r \in Slots : ReturnResponse(r)

Next ==
    \/ ConstructClient
    \/ AwaitRequest
    \/ CallerHookRuns
    \/ LogHookRuns
    \/ LogHookFails
    \/ RaiseHookRuns
    \/ ResponseReturned

Spec == Init /\ [][Next]_vars

(***************************************************************************)
(* SpecLog: one client with logging; requests in flight together.          *)
(***************************************************************************)
\* The response to the request of slot r has a content of its own.
BodyOf(r) == <<"body", r>>

ConstructLogging ==
    /\ Len(clients) = 0
    /\ Construct(Config(LogDir, "True", <<"n", "a">>), <<>>, None, NoHeaders, "absent", "id1")
    /\ UNCHANGED <<requests, files, lastLogged, loggedRaw, generated, named>>

SendConcurrent ==
    \E r \in Slots, status \in {200}, path \in {PathVin1, PathVin2, PathState} :
        SendRequest(r, 1, status, path, BodyOf(r))

NextLog ==
    \/ ConstructLogging
    \/ SendConcurrent
    \/ LogHookRuns
    \/ LogHookFails
    \/ RaiseHookRuns
    \/ ResponseReturned

SpecLog == Init /\ [][NextLog]_vars

(***************************************************************************)
(* SpecHeaders: one construction over every header input, and direct calls *)
(* of generate_default_header.                                             *)
(***************************************************************************)
ConstructWithHeaders ==
    /\ Len(clients) = 0
    /\ \E metric \in {"True", "False", None}, region \in Regions,
          brand \in {<<>>, BMW, MINI}, kw_base_url \in {None, "https://custom"},
          kw_headers \in {NoHeaders, EmptyHeaders, CustomHeaders},
          id \in {"id1", "id2"} :
           Construct(Config(None, metric, region), brand, kw_base_url, kw_headers, "absent", id)
    /\ UNCHANGED <<requests, files, lastLogged, loggedRaw, generated, named>>

CallGenerateDefaultHeader ==
    /\ \E c \in 1..Len(clients), brand \in {<<>>, BMW, MINI}, id \in {"id1", "id2"} :
           generated' = [called |-> TRUE, config |-> clients[c].config, brand |-> brand,
                         header |-> generate_default_header(clients[c].config, brand, id)]
    /\ UNCHANGED <<event_hooks, clients, requests, files, lastLogged, loggedRaw, named>>

NextHeaders ==
    \/ ConstructWithHeaders
    \/ CallGenerateDefaultHeader

SpecHeaders == Init /\ [][NextHeaders]_vars

(***************************************************************************)
(* SpecName: the file name log_response computes, over every short path    *)
(* and the x-user-agent values.                                            *)
(***************************************************************************)
ComputeFileName ==
    /\ \E path \in PathsUpTo(MaxPathLen), xua \in XUserAgents :
           named' = [path |-> path, xua |-> xua, name |-> FileName(path, xua)]
    /\ UNCHANGED <<event_hooks, clients, requests, files, lastLogged, loggedRaw, generated>>

NextName == ComputeFileName

SpecName == Init /\ [][NextName]_vars

(***************************************************************************)
(* Properties.                                                             *)
(***************************************************************************)
Used == {r \in Slots : requests[r].state # "idle"}
ClientOf(r) == clients[requests[r].client]
LogPathOf(r) == ClientOf(r).config.log_response_path

\* The statuses the contract says raise: 4xx/5xx other than 401 and 429.
RaisingStatus(status) == status \in (400..599) \ {401, 429}

\* C1: every response that went through a client ends in a status error
\* carrying its status code exactly when the status is a 4xx/5xx other than
\* 401 and 429, and is returned to the caller otherwise.
C1_StatusContract ==
    \A r \in Slots : Finished(r) =>
        IF RaisingStatus(requests[r].status)
        THEN requests[r].state = "status_error" /\ requests[r].code = requests[r].status
        ELSE requests[r].state = "returned"

\* C2: a request whose log write failed still ends as its status says: the
\* response returned for a status that does not raise, the status error for
\* one that does; never the logging failure.
C2_LogFailureIsolated ==
    \A r \in Slots : requests[r].logFailed =>
        /\ requests[r].state # "log_error"
        /\ Finished(r) =>
               (requests[r].state = "status_error") = RaisingStatus(requests[r].status)

\* C3: a client's response hooks are the caller's, then the logging hook
\* (only with log_response_path set), then the error-raising hook; the hooks
\* of a response run in that order and all have run before it is returned;
\* with logging enabled a response is logged before its status error is
\* raised.
C3_HooksInOrder ==
    /\ \A c \in 1..Len(clients) :
           clients[c].hooks =
               clients[c].kw_given
                   \o (IF clients[c].config.log_response_path # None
                       THEN <<LogHook(c, clients[c].config.log_response_path)>>
                       ELSE <<>>)
                   \o <<RaiseHook(c)>>
    /\ \A r \in Used :
           /\ Len(requests[r].ran) <= Len(HooksOf(r))
           /\ requests[r].ran = SubSeq(HooksOf(r), 1, Len(requests[r].ran))
           /\ requests[r].state = "returned" => requests[r].ran = HooksOf(r)
           /\ (requests[r].state = "status_error" /\ LogPathOf(r) # None) =>
                  \E i \in 1..Len(requests[r].ran) :
                      /\ requests[r].ran[i].kind = "log"
                      /\ requests[r].ran[i].dir = LogPathOf(r)

\* C6: a response through a client without log_response_path writes no
\* file; one through a client with it, the write not failing, writes exactly
\* one file, under that directory.
C6_LoggingOnlyWhenSet ==
    \A r \in Used :
        /\ LogPathOf(r) = None => requests[r].writes = 0 /\ requests[r].wrote = {}
        /\ (LogPathOf(r) # None /\ requests[r].state \in {"returned", "status_error"}) =>
               /\ requests[r].writes = 1
               /\ \A k \in requests[r].wrote : k.dir = LogPathOf(r)

\* C10: construction leaves the caller's hook list as it was, and every
\* client holds the error-raising hook once and the logging hook at most
\* once.
C10_CallerHooksUntouched ==
    /\ event_hooks = <<CallerHook>>
    /\ \A c \in 1..Len(clients) :
           /\ Cardinality({i \in 1..Len(clients[c].hooks) :
                              clients[c].hooks[i].kind = "raise"}) = 1
           /\ Cardinality({i \in 1..Len(clients[c].hooks) :
                              clients[c].hooks[i].kind = "log"}) <= 1

DefaultKeys ==
    {"accept", "accept-language", "user-agent", "x-user-agent", "x-identity-provider",
     "x-correlation-id", "bmw-correlation-id", "bmw-units-preferences", "24-hour-format"}

IsDefaultSet(headers) ==
    /\ DOMAIN headers = DefaultKeys
    /\ headers["accept"] = <<"application/json">>
    /\ headers["accept-language"] = <<"en">>
    /\ headers["24-hour-format"] = <<"true">>

\* C4 as stated: whenever the caller passes a headers mapping, the empty one
\* included, the client's headers are that mapping; the generated default
\* set is used only when none is passed.
C4_SuppliedAlwaysVerbatim ==
    \A c \in 1..Len(clients) :
        IF clients[c].kw_headers.given
        THEN clients[c].headers = clients[c].kw_headers.map
        ELSE IsDefaultSet(clients[c].headers)

\* C4, amended: a non-empty headers mapping of the caller is the client's
\* headers, no default key added; with no mapping, or an empty one, the
\* client's headers are the full generated default set.
C4_NonEmptyVerbatim ==
    \A c \in 1..Len(clients) :
        IF clients[c].kw_headers.given /\ clients[c].kw_headers.map # EmptyDict
        THEN /\ clients[c].headers = clients[c].kw_headers.map
             /\ DOMAIN clients[c].headers = DOMAIN clients[c].kw_headers.map
        ELSE IsDefaultSet(clients[c].headers)

C4_Witness ==
    \E c \in 1..Len(clients) :
        /\ clients[c].kw_headers = CustomHeaders
        /\ clients[c].headers = CustomHeaders.map

\* C9: the generated bmw-units-preferences is d=KM;v=L when use_metric_units
\* is true, d=MI;v=G when it is false, and never anything else, whatever the
\* brand and region.
C9_UnitsPreference ==
    /\ generated.called =>
           /\ generated.header["bmw-units-preferences"] \in {<<"d=KM;v=L">>, <<"d=MI;v=G">>}
           /\ generated.config.use_metric_units = "True" =>
                  generated.header["bmw-units-preferences"] = <<"d=KM;v=L">>
           /\ generated.config.use_metric_units = "False" =>
                  generated.header["bmw-units-preferences"] = <<"d=MI;v=G">>
    /\ \A c \in 1..Len(clients) : ~Truthy(clients[c].kw_headers) =>
           /\ clients[c].config.use_metric_units = "True" =>
                  clients[c].headers["bmw-units-preferences"] = <<"d=KM;v=L">>
           /\ clients[c].config.use_metric_units = "False" =>
                  clients[c].headers["bmw-units-preferences"] = <<"d=MI;v=G">>

C9_Witness ==
    /\ generated.called
    /\ generated.config.use_metric_units = "False"
    /\ generated.brand = MINI
    /\ generated.config.region = <<"r", "o", "w">>
    /\ generated.header["bmw-units-preferences"] = <<"d=MI;v=G">>

\* C5: the file name is the last path segment, then each known brand found
\* in the x-user-agent header, joined with "_", every decimal digit of the
\* whole replaced by 0; with no brand found it is the digit-zeroed segment.
C5_FileName ==
    /\ named.name = ExpectedName(named.path, named.xua)
    /\ (~Occurs(BMW, named.xua) /\ ~Occurs(MINI, named.xua)) =>
           /\ Len(named.name) = Len(AfterLastSlash(named.path))
           /\ \A i \in 1..Len(named.name) :
                  named.name[i] = IF AfterLastSlash(named.path)[i] \in Digits
                                  THEN "0" ELSE AfterLastSlash(named.path)[i]

C5_Witness ==
    /\ named.path = <<"/", "v", "7">>
    /\ Occurs(BMW, named.xua) /\ Occurs(MINI, named.xua)
    /\ named.name = <<"v", "0", "_", "b", "m", "w", "_", "m", "i", "n", "i">>

\* C7: each log file holds the body of the latest logged response with that
\* file's name, and a directory holds as many files as the logged responses
\* have distinct digit-zeroed names.
C7_OverwriteByName ==
    /\ files = lastLogged
    /\ \A dir \in {f.dir : f \in files} \cup {w.dir : w \in loggedRaw} :
           Cardinality({f \in files : f.dir = dir}) =
               Cardinality({ExpectedName(w.path, w.xua) :
                               w \in {x \in loggedRaw : x.dir = dir}})

C7_Witness ==
    /\ \E w1, w2 \in loggedRaw : w1.path = PathVin1 /\ w2.path = PathVin2
    /\ Cardinality(files) = 1
    /\ \E r \in Slots : files = {[dir |-> LogDir, name |-> ExpectedName(requests[r].path, requests[r].xua),
                                  body |-> requests[r].body]}

BodiesAt(fs, k) == {f.body : f \in {g \in fs : g.dir = k.dir /\ g.name = k.name}}

ExpectedKey(r) ==
    [dir |-> LogPathOf(r), name |-> ExpectedName(requests[r].path, requests[r].xua)]

\* C8 as stated: while a request is in flight, no hook of another request
\* touches the log file it wrote.
C8_NoSharedFile ==
    [][\A r1, r2 \in Slots :
          (/\ r1 # r2
           /\ InFlight(r2)
           /\ requests'[r1] # requests[r1]
           /\ requests'[r2] = requests[r2])
          => \A k \in requests[r2].wrote : BodiesAt(files', k) = BodiesAt(files, k)]_vars

\* C8, amended: a step of one request changes no other request, and no file
\* but the one of its own digit-zeroed name; so an in-flight request's log
\* file is untouched by every request whose name differs from its own.
C8_OnlyOwnNamedFile ==
    [][\A r1 \in Slots : requests'[r1] # requests[r1] =>
          /\ \A r2 \in Slots \ {r1} : requests'[r2] = requests[r2]
          /\ requests'[r1].state # "idle" =>
                 /\ \A f \in (files' \ files) \cup (files \ files') :
                        [dir |-> f.dir, name |-> f.name] =
                            [dir |-> clients[requests'[r1].client].config.log_response_path,
                             name |-> ExpectedName(requests'[r1].path, requests'[r1].xua)]
                 /\ \A r2 \in Slots \ {r1} :
                        (InFlight(r2) /\ InFlight(r1) /\ ExpectedKey(r2) # ExpectedKey(r1)) =>
                            \A k \in requests[r2].wrote :
                                BodiesAt(files', k) = BodiesAt(files, k)]_vars

C8_Witness ==
    \E r1, r2 \in Slots :
        /\ r1 # r2
        /\ InFlight(r1) /\ InFlight(r2)
        /\ requests[r1].wrote = {ExpectedKey(r1)}
        /\ requests[r2].wrote = {ExpectedKey(r2)}
        /\ ExpectedKey(r1) # ExpectedKey(r2)
        /\ BodiesAt(files, ExpectedKey(r1)) = {requests[r1].body}
        /\ BodiesAt(files, ExpectedKey(r2)) = {requests[r2].body}

====
